---- MODULE Spec2Model ----
(***************************************************************************)
(* A model of ccode.py: the curses launcher's session state (configuration,*)
(* catalog, owner index), its two-screen key handling and its event loop.  *)
(* Text values (base_url, api_key) are sequences of one-character strings; *)
(* owner and id names are atomic strings ordered as Python orders them.    *)
(***************************************************************************)
EXTENDS Integers, Sequences, FiniteSets, TLC

VARIABLES
    config,             \* CursesApp.config (the in-memory configuration)
    saved,              \* the content of CONFIG_PATH (last load or save_config)
    models_data,        \* CursesApp.models_data: <<>> for None, else <<the list>>
    models_by_owner,    \* CursesApp.models_by_owner
    status_message,     \* CursesApp.status_message
    active_screen,      \* CursesApp.active_screen
    main_focus_row,     \* CursesApp.main_focus_row
    main_focus_field,   \* CursesApp.main_focus_field
    config_focus_index, \* CursesApp.config_focus_index
    config_cursor,      \* CursesApp.config_cursor
    should_exit,        \* CursesApp.should_exit
    frame,              \* CursesApp.frame
    pc,                 \* position of run(): "start", "loop" or "done"
    key,                \* run()'s local `key`: the event read by the last getch()
    save_calls,         \* save_config calls made by the last step
    fetch_saves,        \* of those, the calls made inside fetch_and_store_models
    fetch_result,       \* what the last step's refresh did: none/skipped/error/ok
    fetch_error,        \* the error text fetch_models raised in the last step
    fetch_args,         \* the arguments of the last step's fetch_models call, if any
    launch_result,      \* the outcome of the launch the last step made, if any
    response,           \* the HTTP answer fetch_models got in the last step
    window,             \* stdscr: its size (getmaxyx) and its character cells
    addstr_call,        \* the last addstr_safe call: its arguments, whether it raised
    logo_lines,         \* CursesApp.logo_lines
    use_color,          \* CursesApp.use_color
    color_pairs,        \* CursesApp.color_pairs
    logo_calls          \* the addstr_safe calls of the last render_logo

vars == <<config, saved, models_data, models_by_owner, status_message,
          active_screen, main_focus_row, main_focus_field, config_focus_index,
          config_cursor, should_exit, frame, pc, key, save_calls, fetch_saves,
          fetch_result, fetch_error, fetch_args, launch_result, response,
          window, addstr_call, logo_lines, use_color, color_pairs, logo_calls>>

-----------------------------------------------------------------------------
(* Bounds of the model *)

MaxFrame == 4

MaxText == 2

MaxCatalog == 1

-----------------------------------------------------------------------------
(* Values *)

None == "<None>"

Truthy(v) == v # None /\ v # ""

MODEL_KEYS == <<"opus", "sonnet", "haiku">>

TOGGLE_KEYS == <<"CLAUDE_CODE_ENABLE_TELEMETRY", "DISABLE_COST_WARNINGS",
                 "CLAUDE_CODE_DISABLE_NONESSENTIAL_TRAFFIC">>

DEFAULT_TOGGLES ==
    [CLAUDE_CODE_ENABLE_TELEMETRY |-> 0,
     DISABLE_COST_WARNINGS |-> 1,
     CLAUDE_CODE_DISABLE_NONESSENTIAL_TRAFFIC |-> 1]

config_fields == <<"base_url", "api_key">> \o TOGGLE_KEYS

Slot(owner, id) == [owned_by |-> owner, id |-> id]

Rec(owner, id) == [id |-> id, owned_by |-> owner]

\* Python's order on the names the model uses: "" < "a" < "b" < "x" < "y".
NameOrder == <<"", "a", "b", "x", "y">>

Rank(s) == CHOOSE i \in 1..Len(NameOrder) : NameOrder[i] = s

Min(a, b) == IF a <= b THEN a ELSE b

\* Faulty variant: the lower limit is not applied.
Max_without_limit(a, b) == b

Max(a, b) == IF a >= b THEN a ELSE b

-----------------------------------------------------------------------------
(* str.strip() on a text value *)

IsSpace(c) == c = " "

RECURSIVE lstrip(_)
lstrip(s) ==
    IF s # <<>> /\ IsSpace(Head(s)) THEN lstrip(Tail(s)) ELSE s

RECURSIVE rstrip(_)
rstrip(s) ==
    IF s # <<>> /\ IsSpace(s[Len(s)]) THEN rstrip(SubSeq(s, 1, Len(s) - 1)) ELSE s

strip(s) == rstrip(lstrip(s))

-----------------------------------------------------------------------------
(* sorted(): a stable ascending sort that keeps equal elements *)

RECURSIVE Insert(_, _)
Insert(sortedSeq, x) ==
    IF sortedSeq = <<>> THEN <<x>>
    ELSE IF Rank(x) < Rank(Head(sortedSeq)) THEN <<x>> \o sortedSeq
    ELSE <<Head(sortedSeq)>> \o Insert(Tail(sortedSeq), x)

RECURSIVE sorted(_)
sorted(s) ==
    IF s = <<>> THEN <<>>
    ELSE Insert(sorted(SubSeq(s, 1, Len(s) - 1)), s[Len(s)])

RECURSIVE SortedKeys(_)
SortedKeys(S) ==
    IF S = {} THEN <<>>
    ELSE LET m == CHOOSE x \in S : \A y \in S : Rank(x) <= Rank(y)
         IN <<m>> \o SortedKeys(S \ {m})

\* The ids of one owner, in catalog order (setdefault(owner, []).append(id)).
RECURSIVE IdsOf(_, _)
IdsOf(md, owner) ==
    IF md = <<>> THEN <<>>
    ELSE IF Head(md).owned_by = owner
         THEN <<Head(md).id>> \o IdsOf(Tail(md), owner)
         ELSE IdsOf(Tail(md), owner)

build_models_by_owner(md) ==
    LET data == IF md = <<>> THEN <<>> ELSE md[1]
        owners == {data[i].owned_by : i \in 1..Len(data)}
    IN [o \in owners |-> sorted(IdsOf(data, o))]

owner_options(mbo) == SortedKeys(DOMAIN mbo)

model_options(mbo, owner) == IF owner \in DOMAIN mbo THEN mbo[owner] ELSE <<>>

-----------------------------------------------------------------------------
(* Configuration helpers *)

default_config ==
    [base_url |-> <<>>, api_key |-> <<>>,
     models |-> [opus |-> Slot(None, None), sonnet |-> Slot(None, None),
                 haiku |-> Slot(None, None)],
     toggles |-> DEFAULT_TOGGLES]

\* validate_models: the configuration after the loop over MODEL_KEYS.
ValidSlot(entry, md) ==
    /\ Truthy(entry.owned_by)
    /\ Truthy(entry.id)
    /\ \E i \in 1..Len(md) : md[i].owned_by = entry.owned_by /\ md[i].id = entry.id

ResetNeeded(entry, md) ==
    /\ ~ValidSlot(entry, md)
    /\ (entry.owned_by # None \/ entry.id # None)

\* Faulty variant: slots that the new catalog does not list are kept.
validate_models_never_resets(cfg, md) == [config |-> cfg, changed |-> FALSE]

validate_models(cfg, md) ==
    [config |-> [cfg EXCEPT !.models =
                    [k \in DOMAIN cfg.models |->
                        IF ResetNeeded(cfg.models[k], md) THEN Slot(None, None)
                        ELSE cfg.models[k]]],
     changed |-> \E k \in DOMAIN cfg.models : ResetNeeded(cfg.models[k], md)]

\* Faulty variant: the id is kept when the owner is set.
update_model_owner_keeps_id(cfg, k, owner) ==
    [cfg EXCEPT !.models[k].owned_by = IF Truthy(owner) THEN owner ELSE None]

update_model_owner(cfg, k, owner) ==
    [cfg EXCEPT !.models[k] = Slot(IF Truthy(owner) THEN owner ELSE None, None)]

update_model_id(cfg, k, owner, mid) ==
    IF Truthy(owner) /\ Truthy(mid)
    THEN [cfg EXCEPT !.models[k] = Slot(owner, mid)]
    ELSE [cfg EXCEPT !.models[k] = Slot(IF Truthy(owner) THEN owner ELSE None, None)]

\* Faulty variant: only the credentials are required.
validate_launch_requirements_creds_only(cfg) ==
    IF strip(cfg.base_url) = <<>> \/ strip(cfg.api_key) = <<>>
    THEN "Base URL and API key are required."
    ELSE None

validate_launch_requirements(cfg) ==
    IF strip(cfg.base_url) = <<>> \/ strip(cfg.api_key) = <<>>
    THEN "Base URL and API key are required."
    ELSE IF \E i \in 1..Len(MODEL_KEYS) :
                ~Truthy(cfg.models[MODEL_KEYS[i]].owned_by)
                \/ ~Truthy(cfg.models[MODEL_KEYS[i]].id)
    THEN "OPUS, SONNET, and HAIKU selections are required."
    ELSE None

-----------------------------------------------------------------------------
(* The catalog-fetch collaborator's possible answers *)

Records == {Rec("a", "x"), Rec("a", "y"), Rec("b", "x"), Rec("", "x")}

Catalogs == UNION {[1..n -> Records] : n \in 0..MaxCatalog}

FetchErrors == {"HTTP 500: server error", "Request failed: timed out"}

\* fetch_models: a list of records, or a RuntimeError with its message.
FetchResultsOf(catalogs) ==
    {[ok |-> TRUE, models |-> c, error |-> None] : c \in catalogs}
    \cup {[ok |-> FALSE, models |-> <<>>, error |-> e] : e \in FetchErrors}

FetchResults == FetchResultsOf(Catalogs)

\* str(exc.returncode) for the exit codes the external program fails with.
ExitCodes == {"1", "2"}

\* The external program's possible outcomes (subprocess.run in launch_claude):
\* it ran and returned 0, FileNotFoundError, or CalledProcessError.
RunOutcomes ==
    {[kind |-> "ok", returncode |-> "0"],
     [kind |-> "notfound", returncode |-> None]}
        \cup {[kind |-> "exit", returncode |-> c] : c \in ExitCodes}

NoOutcome == [kind |-> "none", returncode |-> None]

-----------------------------------------------------------------------------
(* Session controller: refresh *)

\* fetch_and_store_models: the session state after the call, the error it
\* returns (None on success) and the save_config calls it made.  `disk' is
\* the content of CONFIG_PATH before the call.
\* Faulty variant: the credentials are stored before the fetch is known to succeed.
fetch_and_store_models_stores_first(cfg, md, mbo, disk, res, base_url, api_key, save) ==
    LET c1 == [cfg EXCEPT !.base_url = base_url, !.api_key = api_key]
        v == validate_models(c1, res.models)
    IN IF ~res.ok
       THEN [error |-> res.error, config |-> c1, saved |-> disk,
             models_data |-> md, models_by_owner |-> mbo, saves |-> 0]
       ELSE [error |-> None, config |-> v.config, saved |-> v.config,
             models_data |-> <<res.models>>,
             models_by_owner |-> build_models_by_owner(<<res.models>>),
             saves |-> 1]

\* Faulty variant: a successful fetch saves only when a slot was reset.
fetch_and_store_models_saves_if_changed(cfg, md, mbo, disk, res, base_url, api_key, save) ==
    IF ~res.ok
    THEN [error |-> res.error, config |-> cfg, saved |-> disk,
          models_data |-> md, models_by_owner |-> mbo, saves |-> 0]
    ELSE LET c1 == [cfg EXCEPT !.base_url = base_url, !.api_key = api_key]
             v == validate_models(c1, res.models)
             dosave == v.changed
         IN [error |-> None, config |-> v.config,
             saved |-> IF dosave THEN v.config ELSE disk,
             models_data |-> <<res.models>>,
             models_by_owner |-> build_models_by_owner(<<res.models>>),
             saves |-> IF dosave THEN 1 ELSE 0]

\* Faulty variant: the credentials passed to the fetch are not stored.
fetch_and_store_models_keeps_typed(cfg, md, mbo, disk, res, base_url, api_key, save) ==
    IF ~res.ok
    THEN [error |-> res.error, config |-> cfg, saved |-> disk,
          models_data |-> md, models_by_owner |-> mbo, saves |-> 0]
    ELSE LET c1 == cfg
             v == validate_models(c1, res.models)
             dosave == save \/ v.changed
         IN [error |-> None, config |-> v.config,
             saved |-> IF dosave THEN v.config ELSE disk,
             models_data |-> <<res.models>>,
             models_by_owner |-> build_models_by_owner(<<res.models>>),
             saves |-> IF dosave THEN 1 ELSE 0]

fetch_and_store_models(cfg, md, mbo, disk, res, base_url, api_key, save) ==
    IF ~res.ok
    THEN [error |-> res.error, config |-> cfg, saved |-> disk,
          models_data |-> md, models_by_owner |-> mbo, saves |-> 0]
    ELSE LET c1 == [cfg EXCEPT !.base_url = base_url, !.api_key = api_key]
             v == validate_models(c1, res.models)
             dosave == save \/ v.changed
         IN [error |-> None, config |-> v.config,
             saved |-> IF dosave THEN v.config ELSE disk,
             models_data |-> <<res.models>>,
             models_by_owner |-> build_models_by_owner(<<res.models>>),
             saves |-> IF dosave THEN 1 ELSE 0]

\* Faulty variant: the credentials are tested for emptiness before trimming.
refresh_models_tests_untrimmed(cfg, md, mbo, disk, res) ==
    LET base_url == strip(cfg.base_url)
        api_key == strip(cfg.api_key)
    IN IF cfg.base_url = <<>> \/ cfg.api_key = <<>>
       THEN [config |-> cfg, saved |-> disk, models_data |-> md,
             models_by_owner |-> mbo, saves |-> 0, result |-> "skipped",
             args |-> <<>>,
             status_message |->
                 "Base URL and API key are required. Open config with c."]
       ELSE LET r == fetch_and_store_models(cfg, md, mbo, disk, res,
                                            base_url, api_key, TRUE)
            IN [config |-> r.config, saved |-> r.saved,
                models_data |-> r.models_data,
                models_by_owner |-> r.models_by_owner, saves |-> r.saves,
                args |-> <<base_url, api_key>>,
                result |-> IF Truthy(r.error) THEN "error" ELSE "ok",
                status_message |->
                    IF Truthy(r.error) THEN r.error ELSE "Models refreshed."]

\* refresh_models: as above, with the status message and what the refresh did.
refresh_models(cfg, md, mbo, disk, res) ==
    LET base_url == strip(cfg.base_url)
        api_key == strip(cfg.api_key)
    IN IF base_url = <<>> \/ api_key = <<>>
       THEN [config |-> cfg, saved |-> disk, models_data |-> md,
             models_by_owner |-> mbo, saves |-> 0, result |-> "skipped",
             args |-> <<>>,
             status_message |->
                 "Base URL and API key are required. Open config with c."]
       ELSE LET r == fetch_and_store_models(cfg, md, mbo, disk, res,
                                            base_url, api_key, TRUE)
            IN [config |-> r.config, saved |-> r.saved,
                models_data |-> r.models_data,
                models_by_owner |-> r.models_by_owner, saves |-> r.saves,
                args |-> <<base_url, api_key>>,
                result |-> IF Truthy(r.error) THEN "error" ELSE "ok",
                status_message |->
                    IF Truthy(r.error) THEN r.error ELSE "Models refreshed."]

\* The assignments a call of refresh_models makes, after `pre' earlier
\* save_config calls of the same handler, for a fetch answer among `results'.
DoRefreshFrom(results, disk, pre) ==
    \E res \in results :
        \E o \in {refresh_models(config, models_data, models_by_owner, disk, res)} :
           /\ config' = o.config
           /\ saved' = o.saved
           /\ models_data' = o.models_data
           /\ models_by_owner' = o.models_by_owner
           /\ status_message' = o.status_message
           /\ fetch_result' = o.result
           /\ fetch_error' = IF o.result = "error" THEN res.error ELSE None
           /\ fetch_saves' = o.saves
           /\ fetch_args' = o.args
           /\ save_calls' = pre + o.saves

DoRefresh(disk, pre) == DoRefreshFrom(FetchResults, disk, pre)

NoRefresh ==
    /\ fetch_result' = "none"
    /\ fetch_saves' = 0
    /\ fetch_error' = None
    /\ fetch_args' = <<>>

NoLaunch == launch_result' = NoOutcome

\* A handler outside refresh leaves the configuration cfg, and has called
\* save_config(cfg) once if didsave.
Commit(cfg, didsave) ==
    /\ config' = cfg
    /\ saved' = IF didsave THEN cfg ELSE saved
    /\ save_calls' = IF didsave THEN 1 ELSE 0

NoConfigChange == Commit(config, FALSE)

-----------------------------------------------------------------------------
(* Selection cycling *)

\* list.index(v): the 0-based position of the first occurrence of v.
IndexOf(list, v) == (CHOOSE i \in 1..Len(list) : list[i] = v
                        /\ \A j \in 1..(i - 1) : list[j] # v) - 1

InList(list, v) == \E i \in 1..Len(list) : list[i] = v

\* The entry cycle_main_option picks from a non-empty option list.
advance(list, current, direction) ==
    LET index == IF InList(list, current) THEN IndexOf(list, current)
                 ELSE IF direction > 0 THEN -1 ELSE 0
    IN list[((index + direction) % Len(list)) + 1]

\* Faulty variant: the configuration is saved whether or not an option was picked.
cycle_main_option_always_saves(cfg, mbo, row, field, direction) ==
    LET k == MODEL_KEYS[row + 1]
        entry == cfg.models[k]
        owners == owner_options(mbo)
        models == model_options(mbo, entry.owned_by)
    IN IF field = 0 /\ owners # <<>>
       THEN [config |-> update_model_owner(cfg, k,
                            advance(owners, entry.owned_by, direction)),
             saved |-> TRUE]
       ELSE IF field # 0 /\ Truthy(entry.owned_by) /\ models # <<>>
       THEN [config |-> update_model_id(cfg, k, entry.owned_by,
                            advance(models, entry.id, direction)),
             saved |-> TRUE]
       ELSE [config |-> cfg, saved |-> TRUE]

\* cycle_main_option: the configuration it leaves, and whether it saved.
cycle_main_option(cfg, mbo, row, field, direction) ==
    LET k == MODEL_KEYS[row + 1]
        entry == cfg.models[k]
    IN IF field = 0
       THEN LET owners == owner_options(mbo)
            IN IF owners = <<>> THEN [config |-> cfg, saved |-> FALSE]
               ELSE [config |-> update_model_owner(cfg, k,
                                    advance(owners, entry.owned_by, direction)),
                     saved |-> TRUE]
       ELSE LET owner == entry.owned_by
                models == model_options(mbo, owner)
            IN IF ~Truthy(owner) THEN [config |-> cfg, saved |-> FALSE]
               ELSE IF models = <<>> THEN [config |-> cfg, saved |-> FALSE]
               ELSE [config |-> update_model_id(cfg, k, owner,
                                    advance(models, entry.id, direction)),
                     saved |-> TRUE]

\* Faulty variant: a failed run of the external program is reported as a success.
launch_claude_hides_failure(cfg, outcome) ==
    IF strip(cfg.base_url) = <<>> \/ strip(cfg.api_key) = <<>>
    THEN "Missing base URL or API key."
    ELSE IF outcome.kind = "notfound" THEN "Could not find 'claude' on PATH."
    ELSE None

\* launch_claude: the error it returns (None on success) for an outcome of
\* the external program.
launch_claude(cfg, outcome) ==
    IF strip(cfg.base_url) = <<>> \/ strip(cfg.api_key) = <<>>
    THEN "Missing base URL or API key."
    ELSE IF outcome.kind = "notfound" THEN "Could not find 'claude' on PATH."
    ELSE IF outcome.kind = "exit"
    THEN "claude exited with code " \o outcome.returncode \o "."
    ELSE None

-----------------------------------------------------------------------------
(* Keys *)

EnterKeys == {"KEY_ENTER", "LF", "CR"}

BackspaceKeys == {"KEY_BACKSPACE", "DEL", "BS"}

\* Keys for which 0 <= key <= 255 and curses.ascii.isprint(key).
Printable == {"a", "b", "c", "d", "q", "A", "B", "C", "Q", "[", "]", " "}

\* The keys the user presses in the model, per screen.
MainKeys == {"KEY_UP", "KEY_DOWN", "KEY_LEFT", "KEY_RIGHT", "a", "d", "c", "b",
             "q", "LF", "ESC"}

ConfigKeys == {"ESC", "KEY_UP", "KEY_DOWN", "KEY_LEFT", "KEY_RIGHT",
               "KEY_BACKSPACE", "LF", "q", " "}

-----------------------------------------------------------------------------
(* Initial state: CursesApp.__init__ *)

InitTexts == {<<>>, <<"q">>, <<" ">>, <<"q", " ">>}

InitModels ==
    {[opus |-> Slot(None, None), sonnet |-> Slot(None, None),
      haiku |-> Slot(None, None)],
     [opus |-> Slot("a", "x"), sonnet |-> Slot("a", "x"),
      haiku |-> Slot("a", "x")],
     [opus |-> Slot("a", "x"), sonnet |-> Slot("b", None),
      haiku |-> Slot(None, "x")],
     [opus |-> Slot("", "x"), sonnet |-> Slot("a", "y"),
      haiku |-> Slot("a", "x")]}

\* load_config: what it can return for the configuration files of the model.
load_config ==
    {[default_config EXCEPT !.base_url = u, !.api_key = k, !.models = m] :
        u \in InitTexts \ {<<" ">>}, k \in InitTexts \ {<<"q", " ">>},
        m \in InitModels}

\* The HTTP exchange and the screen's cells are left out of the session
\* specifications: there fetch_models is its result and nothing is drawn.
NoResponse == [kind |-> "none", status |-> None, body |-> <<>>]

NoWindow == [height |-> 0, width |-> 0, cells |-> <<>>]

NoCall == [y |-> 0, x |-> 0, text |-> <<>>, called |-> FALSE, raised |-> FALSE]

\* The logo and its colours, as __init__ leaves them (no logo is drawn in
\* the session specifications).
logo == <<logo_lines, use_color, color_pairs, logo_calls>>

NoLogo ==
    /\ logo_lines = <<>>
    /\ use_color = FALSE
    /\ color_pairs = <<>>
    /\ logo_calls = {}

Undrawn == UNCHANGED <<response, window, addstr_call, logo>>

\* load_config: the toggles it can return (a bool, or an int that is 0 or 1,
\* replaces the default), with no other key in the file.
load_config_toggles ==
    {[default_config EXCEPT !.toggles = t] :
        t \in [DOMAIN DEFAULT_TOGGLES -> {0, 1}]}

\* build_env: the environment variables of the toggles (str(value)).
build_env(cfg) == [k \in DOMAIN cfg.toggles |-> ToString(cfg.toggles[k])]

InitSessionFrom(configs) ==
    /\ config \in configs
    /\ saved = config
    /\ models_data = <<>>
    /\ models_by_owner = build_models_by_owner(<<>>)
    /\ status_message = ""
    /\ active_screen = "main"
    /\ main_focus_row = 0
    /\ main_focus_field = 0
    /\ config_focus_index = 0
    /\ config_cursor = [base_url |-> Len(config.base_url),
                        api_key |-> Len(config.api_key)]
    /\ should_exit = FALSE
    /\ frame = 0
    /\ pc = "start"
    /\ key = "none"
    /\ save_calls = 0
    /\ fetch_saves = 0
    /\ fetch_result = "none"
    /\ fetch_error = None
    /\ fetch_args = <<>>
    /\ launch_result = NoOutcome

InitSession == InitSessionFrom(load_config)

Init ==
    /\ InitSession
    /\ response = NoResponse
    /\ window = NoWindow
    /\ addstr_call = NoCall
    /\ NoLogo

-----------------------------------------------------------------------------
(* Key handlers *)

\* handle_main_key
handle_main_key(k) ==
    IF k = "KEY_UP" THEN
        /\ main_focus_row' = Max(0, main_focus_row - 1)
        /\ NoConfigChange /\ NoRefresh /\ NoLaunch
        /\ UNCHANGED <<models_data, models_by_owner, status_message,
                       active_screen, main_focus_field, should_exit>>
    ELSE IF k = "KEY_DOWN" THEN
        /\ main_focus_row' = Min(Len(MODEL_KEYS) - 1, main_focus_row + 1)
        /\ NoConfigChange /\ NoRefresh /\ NoLaunch
        /\ UNCHANGED <<models_data, models_by_owner, status_message,
                       active_screen, main_focus_field, should_exit>>
    ELSE IF k = "KEY_LEFT" THEN
        /\ main_focus_field' = 0
        /\ NoConfigChange /\ NoRefresh /\ NoLaunch
        /\ UNCHANGED <<models_data, models_by_owner, status_message,
                       active_screen, main_focus_row, should_exit>>
    ELSE IF k = "KEY_RIGHT" THEN
        /\ main_focus_field' = 1
        /\ NoConfigChange /\ NoRefresh /\ NoLaunch
        /\ UNCHANGED <<models_data, models_by_owner, status_message,
                       active_screen, main_focus_row, should_exit>>
    ELSE IF k \in {"[", "a", "]", "d"} THEN
        \E r \in {cycle_main_option(config, models_by_owner, main_focus_row,
                     main_focus_field, IF k \in {"[", "a"} THEN -1 ELSE 1)} :
           /\ Commit(r.config, r.saved)
           /\ NoRefresh /\ NoLaunch
           /\ UNCHANGED <<models_data, models_by_owner, status_message,
                          active_screen, main_focus_row, main_focus_field,
                          should_exit>>
    ELSE IF k \in {"c", "C"} THEN
        /\ active_screen' = "config"
        /\ status_message' = ""
        /\ NoConfigChange /\ NoRefresh /\ NoLaunch
        /\ UNCHANGED <<models_data, models_by_owner, main_focus_row,
                       main_focus_field, should_exit>>
    ELSE IF k \in {"b", "B"} THEN
        /\ DoRefresh(saved, 0)
        /\ NoLaunch
        /\ UNCHANGED <<active_screen, main_focus_row, main_focus_field,
                       should_exit>>
    ELSE IF k \in {"q", "Q"} THEN
        /\ should_exit' = TRUE
        /\ NoConfigChange /\ NoRefresh /\ NoLaunch
        /\ UNCHANGED <<models_data, models_by_owner, status_message,
                       active_screen, main_focus_row, main_focus_field>>
    ELSE IF k \in EnterKeys THEN
        LET error == validate_launch_requirements(config)
        IN /\ NoConfigChange /\ NoRefresh
           /\ UNCHANGED <<models_data, models_by_owner, active_screen,
                          main_focus_row, main_focus_field>>
           /\ IF Truthy(error)
              THEN /\ status_message' = error
                   /\ NoLaunch
                   /\ UNCHANGED should_exit
              ELSE \E outcome \in RunOutcomes :
                      LET lerr == launch_claude(config, outcome)
                      IN /\ launch_result' = outcome
                         /\ IF Truthy(lerr)
                            THEN /\ status_message' = lerr
                                 /\ UNCHANGED should_exit
                            ELSE /\ status_message' = ""
                                 /\ should_exit' = TRUE
    ELSE
        /\ NoConfigChange /\ NoRefresh /\ NoLaunch
        /\ UNCHANGED <<models_data, models_by_owner, status_message,
                       active_screen, main_focus_row, main_focus_field,
                       should_exit>>

\* Faulty variant: an edit changes the value and is not saved.
handle_text_input_no_save(cfg, cur, field, k) ==
    LET value == cfg[field]
        cursor == Min(cur[field], Len(value))
    IN IF k \in BackspaceKeys /\ cursor > 0
       THEN [value |-> SubSeq(value, 1, cursor - 1)
                           \o SubSeq(value, cursor + 1, Len(value)),
             saved |-> FALSE, cursor |-> cursor - 1]
       ELSE IF k \in Printable
       THEN [value |-> SubSeq(value, 1, cursor) \o <<k>>
                           \o SubSeq(value, cursor + 1, Len(value)),
             saved |-> FALSE, cursor |-> cursor + 1]
       ELSE [value |-> value, saved |-> FALSE, cursor |-> cursor]

\* Faulty variant: Backspace removes the character under the cursor.
handle_text_input_deletes_forward(cfg, cur, field, k) ==
    LET value == cfg[field]
        cursor == Min(cur[field], Len(value))
    IN IF k = "KEY_LEFT"
       THEN [value |-> value, saved |-> FALSE,
             cursor |-> IF cursor > 0 THEN cursor - 1 ELSE cursor]
       ELSE IF k = "KEY_RIGHT"
       THEN [value |-> value, saved |-> FALSE,
             cursor |-> IF cursor < Len(value) THEN cursor + 1 ELSE cursor]
       ELSE IF k \in BackspaceKeys
       THEN IF cursor > 0
            THEN [value |-> SubSeq(value, 1, cursor)
                                \o SubSeq(value, cursor + 2, Len(value)),
                  saved |-> TRUE, cursor |-> cursor - 1]
            ELSE [value |-> value, saved |-> FALSE, cursor |-> cursor]
       ELSE IF k \in Printable
       THEN [value |-> SubSeq(value, 1, cursor) \o <<k>>
                           \o SubSeq(value, cursor + 1, Len(value)),
             saved |-> TRUE, cursor |-> cursor + 1]
       ELSE [value |-> value, saved |-> FALSE, cursor |-> cursor]

\* Faulty variant: the right arrow moves the cursor past the end of the value.
handle_text_input_right_unbounded(cfg, cur, field, k) ==
    LET value == cfg[field]
        cursor == Min(cur[field], Len(value))
    IN IF k = "KEY_LEFT"
       THEN [value |-> value, saved |-> FALSE,
             cursor |-> IF cursor > 0 THEN cursor - 1 ELSE cursor]
       ELSE IF k = "KEY_RIGHT"
       THEN [value |-> value, saved |-> FALSE,
             cursor |-> cursor + 1]
       ELSE IF k \in BackspaceKeys
       THEN IF cursor > 0
            THEN [value |-> SubSeq(value, 1, cursor - 1)
                                \o SubSeq(value, cursor + 1, Len(value)),
                  saved |-> TRUE, cursor |-> cursor - 1]
            ELSE [value |-> value, saved |-> FALSE, cursor |-> cursor]
       ELSE IF k \in Printable
       THEN [value |-> SubSeq(value, 1, cursor) \o <<k>>
                           \o SubSeq(value, cursor + 1, Len(value)),
             saved |-> TRUE, cursor |-> cursor + 1]
       ELSE [value |-> value, saved |-> FALSE, cursor |-> cursor]

\* handle_text_input: the field's value and cursor after the key.
handle_text_input(cfg, cur, field, k) ==
    LET value == cfg[field]
        cursor == Min(cur[field], Len(value))
    IN IF k = "KEY_LEFT"
       THEN [value |-> value, saved |-> FALSE,
             cursor |-> IF cursor > 0 THEN cursor - 1 ELSE cursor]
       ELSE IF k = "KEY_RIGHT"
       THEN [value |-> value, saved |-> FALSE,
             cursor |-> IF cursor < Len(value) THEN cursor + 1 ELSE cursor]
       ELSE IF k \in BackspaceKeys
       THEN IF cursor > 0
            THEN [value |-> SubSeq(value, 1, cursor - 1)
                                \o SubSeq(value, cursor + 1, Len(value)),
                  saved |-> TRUE, cursor |-> cursor - 1]
            ELSE [value |-> value, saved |-> FALSE, cursor |-> cursor]
       ELSE IF k \in Printable
       THEN [value |-> SubSeq(value, 1, cursor) \o <<k>>
                           \o SubSeq(value, cursor + 1, Len(value)),
             saved |-> TRUE, cursor |-> cursor + 1]
       ELSE [value |-> value, saved |-> FALSE, cursor |-> cursor]

\* Faulty variant: Escape saves and returns to Main without refreshing the catalog.
handle_config_key_no_refresh(k) ==
    LET field == config_fields[config_focus_index + 1]
    IN IF k = "ESC" THEN
        /\ active_screen' = "main"
        /\ Commit(config, TRUE)
        /\ NoRefresh /\ NoLaunch
        /\ UNCHANGED <<models_data, models_by_owner, status_message,
                       config_focus_index, config_cursor>>
    ELSE IF k = "KEY_UP" THEN
        /\ config_focus_index' = Max(0, config_focus_index - 1)
        /\ NoConfigChange /\ NoRefresh /\ NoLaunch
        /\ UNCHANGED <<models_data, models_by_owner, status_message,
                       active_screen, config_cursor>>
    ELSE IF k = "KEY_DOWN" THEN
        /\ config_focus_index' =
               Min(Len(config_fields) - 1, config_focus_index + 1)
        /\ NoConfigChange /\ NoRefresh /\ NoLaunch
        /\ UNCHANGED <<models_data, models_by_owner, status_message,
                       active_screen, config_cursor>>
    ELSE IF field \in {"base_url", "api_key"} THEN
        \E r \in {handle_text_input(config, config_cursor, field, k)} :
           /\ Commit([config EXCEPT ![field] = r.value], r.saved)
           /\ config_cursor' = [config_cursor EXCEPT ![field] = r.cursor]
           /\ NoRefresh /\ NoLaunch
           /\ UNCHANGED <<models_data, models_by_owner, status_message,
                          active_screen, config_focus_index>>
    ELSE IF k \in EnterKeys \cup {" "} THEN
        /\ Commit([config EXCEPT !.toggles[field] =
                       IF config.toggles[field] # 0 THEN 0 ELSE 1], TRUE)
        /\ NoRefresh /\ NoLaunch
        /\ UNCHANGED <<models_data, models_by_owner, status_message,
                       active_screen, config_focus_index, config_cursor>>
    ELSE
        /\ NoConfigChange /\ NoRefresh /\ NoLaunch
        /\ UNCHANGED <<models_data, models_by_owner, status_message,
                       active_screen, config_focus_index, config_cursor>>

\* Faulty variant: the activation key switches the toggle on instead of flipping it.
handle_config_key_sets_toggle(k) ==
    LET field == config_fields[config_focus_index + 1]
    IN IF k = "ESC" THEN
        /\ active_screen' = "main"
        /\ DoRefresh(config, 1)
        /\ NoLaunch
        /\ UNCHANGED <<config_focus_index, config_cursor>>
    ELSE IF k = "KEY_UP" THEN
        /\ config_focus_index' = Max(0, config_focus_index - 1)
        /\ NoConfigChange /\ NoRefresh /\ NoLaunch
        /\ UNCHANGED <<models_data, models_by_owner, status_message,
                       active_screen, config_cursor>>
    ELSE IF k = "KEY_DOWN" THEN
        /\ config_focus_index' =
               Min(Len(config_fields) - 1, config_focus_index + 1)
        /\ NoConfigChange /\ NoRefresh /\ NoLaunch
        /\ UNCHANGED <<models_data, models_by_owner, status_message,
                       active_screen, config_cursor>>
    ELSE IF field \in {"base_url", "api_key"} THEN
        \E r \in {handle_text_input(config, config_cursor, field, k)} :
           /\ Commit([config EXCEPT ![field] = r.value], r.saved)
           /\ config_cursor' = [config_cursor EXCEPT ![field] = r.cursor]
           /\ NoRefresh /\ NoLaunch
           /\ UNCHANGED <<models_data, models_by_owner, status_message,
                          active_screen, config_focus_index>>
    ELSE IF k \in EnterKeys \cup {" "} THEN
        /\ Commit([config EXCEPT !.toggles[field] =
                       1], TRUE)
        /\ NoRefresh /\ NoLaunch
        /\ UNCHANGED <<models_data, models_by_owner, status_message,
                       active_screen, config_focus_index, config_cursor>>
    ELSE
        /\ NoConfigChange /\ NoRefresh /\ NoLaunch
        /\ UNCHANGED <<models_data, models_by_owner, status_message,
                       active_screen, config_focus_index, config_cursor>>

\* handle_config_key
handle_config_key(k) ==
    LET field == config_fields[config_focus_index + 1]
    IN IF k = "ESC" THEN
        /\ active_screen' = "main"
        /\ DoRefresh(config, 1)
        /\ NoLaunch
        /\ UNCHANGED <<config_focus_index, config_cursor>>
    ELSE IF k = "KEY_UP" THEN
        /\ config_focus_index' = Max(0, config_focus_index - 1)
        /\ NoConfigChange /\ NoRefresh /\ NoLaunch
        /\ UNCHANGED <<models_data, models_by_owner, status_message,
                       active_screen, config_cursor>>
    ELSE IF k = "KEY_DOWN" THEN
        /\ config_focus_index' =
               Min(Len(config_fields) - 1, config_focus_index + 1)
        /\ NoConfigChange /\ NoRefresh /\ NoLaunch
        /\ UNCHANGED <<models_data, models_by_owner, status_message,
                       active_screen, config_cursor>>
    ELSE IF field \in {"base_url", "api_key"} THEN
        \E r \in {handle_text_input(config, config_cursor, field, k)} :
           /\ Commit([config EXCEPT ![field] = r.value], r.saved)
           /\ config_cursor' = [config_cursor EXCEPT ![field] = r.cursor]
           /\ NoRefresh /\ NoLaunch
           /\ UNCHANGED <<models_data, models_by_owner, status_message,
                          active_screen, config_focus_index>>
    ELSE IF k \in EnterKeys \cup {" "} THEN
        /\ Commit([config EXCEPT !.toggles[field] =
                       IF config.toggles[field] # 0 THEN 0 ELSE 1], TRUE)
        /\ NoRefresh /\ NoLaunch
        /\ UNCHANGED <<models_data, models_by_owner, status_message,
                       active_screen, config_focus_index, config_cursor>>
    ELSE
        /\ NoConfigChange /\ NoRefresh /\ NoLaunch
        /\ UNCHANGED <<models_data, models_by_owner, status_message,
                       active_screen, config_focus_index, config_cursor>>

-----------------------------------------------------------------------------
(* run(): the event loop *)

\* run() up to the loop: the startup refresh (active_screen is "main").
Start ==
    /\ Undrawn
    /\ pc = "start"
    /\ pc' = "loop"
    /\ IF active_screen = "main"
       THEN DoRefresh(saved, 0)
       ELSE /\ NoConfigChange /\ NoRefresh
            /\ UNCHANGED <<models_data, models_by_owner, status_message>>
    /\ NoLaunch
    /\ UNCHANGED <<active_screen, main_focus_row, main_focus_field,
                   config_focus_index, config_cursor, should_exit, frame, key>>

\* Faulty variant: the loop does not look at the exit flag.
Looping_ignores_exit == pc = "loop"

\* `while not self.should_exit'
Looping == pc = "loop" /\ ~should_exit

\* getch() returns KEY_RESIZE: `continue' without counting a frame.
Resize ==
    /\ Undrawn
    /\ Looping
    /\ key' = "KEY_RESIZE"
    /\ NoConfigChange /\ NoRefresh /\ NoLaunch
    /\ UNCHANGED <<models_data, models_by_owner, status_message, active_screen,
                   main_focus_row, main_focus_field, config_focus_index,
                   config_cursor, should_exit, frame, pc>>

\* Faulty variant: a timeout does not count a frame.
Timeout_keeps_frame ==
    /\ Undrawn
    /\ Looping
    /\ frame < MaxFrame
    /\ key' = "TIMEOUT"
    /\ frame' = frame
    /\ NoConfigChange /\ NoRefresh /\ NoLaunch
    /\ UNCHANGED <<models_data, models_by_owner, status_message, active_screen,
                   main_focus_row, main_focus_field, config_focus_index,
                   config_cursor, should_exit, pc>>

\* getch() times out (-1): one more frame.
Timeout ==
    /\ Undrawn
    /\ Looping
    /\ frame < MaxFrame
    /\ key' = "TIMEOUT"
    /\ frame' = frame + 1
    /\ NoConfigChange /\ NoRefresh /\ NoLaunch
    /\ UNCHANGED <<models_data, models_by_owner, status_message, active_screen,
                   main_focus_row, main_focus_field, config_focus_index,
                   config_cursor, should_exit, pc>>

\* A text value may grow only up to MaxText characters in the model.
WithinText(k) ==
    LET field == config_fields[config_focus_index + 1]
    IN (field \in {"base_url", "api_key"} /\ k \in Printable)
           => Len(config[field]) < MaxText

MainKey ==
    /\ Undrawn
    /\ Looping
    /\ frame < MaxFrame
    /\ active_screen = "main"
    /\ \E k \in MainKeys :
          /\ key' = k
          /\ handle_main_key(k)
    /\ frame' = frame + 1
    /\ UNCHANGED <<config_focus_index, config_cursor, pc>>

ConfigKey ==
    /\ Undrawn
    /\ Looping
    /\ frame < MaxFrame
    /\ active_screen # "main"
    /\ \E k \in ConfigKeys :
          /\ WithinText(k)
          /\ key' = k
          /\ handle_config_key(k)
    /\ frame' = frame + 1
    /\ UNCHANGED <<main_focus_row, main_focus_field, should_exit, pc>>

\* `while not self.should_exit' ends the loop.
LoopExit ==
    /\ Undrawn
    /\ pc = "loop"
    /\ should_exit
    /\ pc' = "done"
    /\ NoConfigChange /\ NoRefresh /\ NoLaunch
    /\ UNCHANGED <<models_data, models_by_owner, status_message, active_screen,
                   main_focus_row, main_focus_field, config_focus_index,
                   config_cursor, should_exit, frame, key>>

Next == Start \/ Resize \/ Timeout \/ MainKey \/ ConfigKey \/ LoopExit

Spec == Init /\ [][Next]_vars

-----------------------------------------------------------------------------
(* The selection model with larger catalogs: the program started with
   credentials in its configuration file, a startup refresh that fetches a
   catalog of up to MaxSelCatalog records, then the Main screen's focus and
   cycling keys only. *)

MaxSelCatalog == 3

SelCatalogs == UNION {[1..n -> Records] : n \in 0..MaxSelCatalog}

SelKeys == {"KEY_UP", "KEY_DOWN", "KEY_RIGHT", "KEY_LEFT", "a", "d"}

InitSel ==
    /\ Init
    /\ config.base_url = <<"q">>
    /\ config.api_key = <<"q">>

StartSel ==
    /\ Undrawn
    /\ pc = "start"
    /\ pc' = "loop"
    /\ DoRefreshFrom(FetchResultsOf(SelCatalogs), saved, 0)
    /\ NoLaunch
    /\ UNCHANGED <<active_screen, main_focus_row, main_focus_field,
                   config_focus_index, config_cursor, should_exit, frame, key>>

SelKey ==
    /\ Undrawn
    /\ Looping
    /\ frame < MaxFrame
    /\ active_screen = "main"
    /\ \E k \in SelKeys :
          /\ key' = k
          /\ handle_main_key(k)
    /\ frame' = frame + 1
    /\ UNCHANGED <<config_focus_index, config_cursor, pc>>

NextSel == StartSel \/ SelKey

SpecSel == InitSel /\ [][NextSel]_vars

-----------------------------------------------------------------------------
(* Focus movement: the program started without credentials (every refresh
   returns before fetching), then up to MaxFocusFrame arrow, open-config and
   Escape keys, enough to walk to both ends of both screens. *)

MaxFocusFrame == 7

FocusMainKeys == {"KEY_UP", "KEY_DOWN", "KEY_LEFT", "KEY_RIGHT", "c"}

FocusConfigKeys == {"KEY_UP", "KEY_DOWN", "ESC"}

InitFocus ==
    /\ Init
    /\ config = default_config

FocusMainKey ==
    /\ Undrawn
    /\ Looping
    /\ frame < MaxFocusFrame
    /\ active_screen = "main"
    /\ \E k \in FocusMainKeys :
          /\ key' = k
          /\ handle_main_key(k)
    /\ frame' = frame + 1
    /\ UNCHANGED <<config_focus_index, config_cursor, pc>>

FocusConfigKey ==
    /\ Undrawn
    /\ Looping
    /\ frame < MaxFocusFrame
    /\ active_screen # "main"
    /\ \E k \in FocusConfigKeys :
          /\ key' = k
          /\ handle_config_key(k)
    /\ frame' = frame + 1
    /\ UNCHANGED <<main_focus_row, main_focus_field, should_exit, pc>>

NextFocus == Start \/ FocusMainKey \/ FocusConfigKey

SpecFocus == InitFocus /\ [][NextFocus]_vars

-----------------------------------------------------------------------------
(* The toggles: the program started with any toggle values and no
   credentials, then the open-config key and up to MaxToggleFrame keys in
   all: arrows, Enter and space on the Config screen. *)

MaxToggleFrame == 5

ToggleConfigKeys == {"KEY_UP", "KEY_DOWN", "LF", " "}

InitToggle ==
    /\ InitSessionFrom(load_config_toggles)
    /\ response = NoResponse
    /\ window = NoWindow
    /\ addstr_call = NoCall
    /\ NoLogo

ToggleMainKey ==
    /\ Undrawn
    /\ Looping
    /\ frame < MaxToggleFrame
    /\ active_screen = "main"
    /\ key' = "c"
    /\ handle_main_key("c")
    /\ frame' = frame + 1
    /\ UNCHANGED <<config_focus_index, config_cursor, pc>>

ToggleConfigKey ==
    /\ Undrawn
    /\ Looping
    /\ frame < MaxToggleFrame
    /\ active_screen # "main"
    /\ \E k \in ToggleConfigKeys :
          /\ WithinText(k)
          /\ key' = k
          /\ handle_config_key(k)
    /\ frame' = frame + 1
    /\ UNCHANGED <<main_focus_row, main_focus_field, should_exit, pc>>

NextToggle == Start \/ ToggleMainKey \/ ToggleConfigKey

SpecToggle == InitToggle /\ [][NextToggle]_vars

-----------------------------------------------------------------------------
(* The painter: one addstr_safe call on a blank window of up to MaxHeight
   rows and MaxWidth columns, with a text of up to MaxPaintLen characters. *)

MaxHeight == 2

MaxWidth == 3

MaxPaintLen == 3

PaintChars == {"a", "b"}

Blank == "."

PaintTexts == UNION {[1..n -> PaintChars] : n \in 0..MaxPaintLen}

BlankWindow(h, w) ==
    [height |-> h, width |-> w,
     cells |-> [r \in 0..(h - 1) |-> [c \in 0..(w - 1) |-> Blank]]]

\* window.addstr(y, x, text) of curses: an error, with nothing written, when
\* (y, x) is outside the window; else the characters go to consecutive cells,
\* wrapping at the right margin, and it is an error (after the cells that fit
\* were written) when the text reaches the lower right corner or beyond.
addstr(win, y, x, text) ==
    IF y \notin 0..(win.height - 1) \/ x \notin 0..(win.width - 1)
    THEN [cells |-> win.cells, error |-> TRUE]
    ELSE LET start == y * win.width + x
             index(r, c) == r * win.width + c - start + 1
         IN [cells |->
                 [r \in 0..(win.height - 1) |->
                     [c \in 0..(win.width - 1) |->
                         IF index(r, c) \in 1..Len(text)
                         THEN text[index(r, c)]
                         ELSE win.cells[r][c]]],
             error |-> /\ text # <<>>
                       /\ start + Len(text) >= win.height * win.width]

\* Faulty variant: the text is not cut to the width left, and curses.error is not caught.
addstr_safe_uncut(win, y, x, text) ==
    IF y < 0 \/ y >= win.height
    THEN [cells |-> win.cells, raised |-> FALSE]
    ELSE LET text1 == IF x < 0 THEN SubSeq(text, 1 - x, Len(text)) ELSE text
             x1 == IF x < 0 THEN 0 ELSE x
         IN IF x1 >= win.width
            THEN [cells |-> win.cells, raised |-> FALSE]
            ELSE LET r == addstr(win, y, x1, text1)
                 IN [cells |-> r.cells, raised |-> r.error]

\* addstr_safe: the window's cells after the call, and whether it raised.
addstr_safe(win, y, x, text) ==
    IF y < 0 \/ y >= win.height
    THEN [cells |-> win.cells, raised |-> FALSE]
    ELSE LET text1 == IF x < 0 THEN SubSeq(text, 1 - x, Len(text)) ELSE text
             x1 == IF x < 0 THEN 0 ELSE x
             available == win.width - x1
         IN IF x1 >= win.width
            THEN [cells |-> win.cells, raised |-> FALSE]
            ELSE IF available <= 0
            THEN [cells |-> win.cells, raised |-> FALSE]
            ELSE LET r == addstr(win, y, x1,
                                 SubSeq(text1, 1, Min(available, Len(text1))))
                 IN [cells |-> r.cells, raised |-> FALSE]

session ==
    <<config, saved, models_data, models_by_owner, status_message,
      active_screen, main_focus_row, main_focus_field, config_focus_index,
      config_cursor, should_exit, frame, pc, key, save_calls, fetch_saves,
      fetch_result, fetch_error, fetch_args, launch_result>>

InitPaint ==
    /\ InitSession
    /\ config = default_config
    /\ response = NoResponse
    /\ window \in {BlankWindow(h, w) : h \in 1..MaxHeight, w \in 1..MaxWidth}
    /\ addstr_call = NoCall
    /\ NoLogo

Paint ==
    /\ ~addstr_call.called
    /\ \E y \in (-1)..MaxHeight, x \in (-(MaxPaintLen + 1))..MaxWidth,
          text \in PaintTexts :
          \E r \in {addstr_safe(window, y, x, text)} :
             /\ window' = [window EXCEPT !.cells = r.cells]
             /\ addstr_call' = [y |-> y, x |-> x, text |-> text,
                                called |-> TRUE, raised |-> r.raised]
    /\ UNCHANGED <<session, response, logo>>

NextPaint == Paint

SpecPaint == InitPaint /\ [][NextPaint]_vars

-----------------------------------------------------------------------------
(* The HTTP answer: the program started with credentials, and every refresh
   (at startup and by the b key) gets an answer whose status is not 200, with
   a body of up to MaxOver characters or within MaxOver of BodyLimit. *)

\* `if len(body) > 200'
BodyLimit == 200

MaxOver == 2

BodyLengths == (0..MaxOver) \cup ((BodyLimit - MaxOver)..(BodyLimit + MaxOver))

BodyText(n) == [i \in 1..n |-> IF i % 2 = 1 THEN "e" ELSE "r"]

Spaces(n) == [i \in 1..n |-> " "]

\* The response bodies, decoded: without and with surrounding whitespace.
Bodies ==
    {Spaces(l) \o BodyText(n) \o Spaces(t) : l, t \in 0..1, n \in BodyLengths}
        \cup {<<"s", "e", "r", "v", "e", "r", " ", "e", "r", "r", "o", "r">>}

\* urlopen raised HTTPError (exc.code, exc.fp), or returned a response whose
\* getcode() is not 200.
HttpResponses ==
    {[kind |-> "HTTPError", status |-> c, body |-> b] :
        c \in {"404", "500"}, b \in Bodies}
    \cup {[kind |-> "response", status |-> "204", body |-> b] : b \in Bodies}

\* The str of a sequence of characters.
RECURSIVE join(_)
join(chars) ==
    IF chars = <<>> THEN ""
    ELSE IF Len(chars) = 1 THEN chars[1]
    ELSE LET half == Len(chars) \div 2
         IN join(SubSeq(chars, 1, half))
                \o join(SubSeq(chars, half + 1, Len(chars)))

\* Faulty variant: a body of exactly BodyLimit characters is cut as well.
http_error_message_cuts_at_limit(status, body) ==
    LET stripped == strip(body)
        cut == IF Len(stripped) >= BodyLimit
               THEN join(SubSeq(stripped, 1, BodyLimit)) \o "..."
               ELSE join(stripped)
        message == IF cut = "" THEN "No response body" ELSE cut
    IN "HTTP " \o status \o ": " \o message

\* The message of the RuntimeError fetch_models raises for a status and body.
http_error_message(status, body) ==
    LET stripped == strip(body)
        cut == IF Len(stripped) > BodyLimit
               THEN join(SubSeq(stripped, 1, BodyLimit)) \o "..."
               ELSE join(stripped)
        message == IF cut = "" THEN "No response body" ELSE cut
    IN "HTTP " \o status \o ": " \o message

\* fetch_models for an answer whose status is not 200.
fetch_models(resp) ==
    [ok |-> FALSE, models |-> <<>>,
     error |-> http_error_message(resp.status, resp.body)]

InitHttp ==
    /\ Init
    /\ config.base_url = <<"q", " ">>
    /\ config.api_key = <<"q">>

StartHttp ==
    /\ pc = "start"
    /\ pc' = "loop"
    /\ \E resp \in HttpResponses :
          /\ response' = resp
          /\ DoRefreshFrom({fetch_models(resp)}, saved, 0)
    /\ NoLaunch
    /\ UNCHANGED <<active_screen, main_focus_row, main_focus_field,
                   config_focus_index, config_cursor, should_exit, frame, key,
                   window, addstr_call, logo>>

\* The b key on Main, the refresh getting an answer of HttpResponses.
HttpKey ==
    /\ Looping
    /\ frame < MaxFrame
    /\ active_screen = "main"
    /\ key' = "b"
    /\ frame' = frame + 1
    /\ \E resp \in HttpResponses :
          /\ response' = resp
          /\ DoRefreshFrom({fetch_models(resp)}, saved, 0)
    /\ NoLaunch
    /\ UNCHANGED <<active_screen, main_focus_row, main_focus_field,
                   config_focus_index, config_cursor, should_exit, pc,
                   window, addstr_call, logo>>

NextHttp == StartHttp \/ HttpKey

SpecHttp == InitHttp /\ [][NextHttp]_vars

-----------------------------------------------------------------------------
(* The Pulse style: a logo of up to MaxLogoRows lines of MaxLogoCols
   characters, any outcome of init_colors, and up to MaxPulseFrame loop
   iterations that render the Main screen's logo and time out. *)

MaxLogoRows == 2

MaxLogoCols == 2

MaxPulseFrame == 21

\* self.logo_palette: the colour pairs init_colors tries to create.
logo_palette ==
    <<<<"CYAN", "BLUE">>, <<"BLUE", "MAGENTA">>, <<"MAGENTA", "RED">>,
      <<"RED", "YELLOW">>, <<"YELLOW", "GREEN">>>>

\* The logos of the model: lines of glyphs ("#") and spaces.
ModelLogos ==
    UNION {[1..r -> [1..c -> {" ", "#"}]] :
              r \in 1..MaxLogoRows, c \in 1..MaxLogoCols}

PulseWindows ==
    {BlankWindow(MaxHeight, w) : w \in {1, MaxLogoCols + 1, MaxLogoCols + 2}}

\* init_colors: no colour (has_colors() false or start_color failed), or
\* the pair ids 1..n created before the first init_pair that failed.
init_colors ==
    {[use_color |-> FALSE, color_pairs |-> <<>>]}
        \cup {[use_color |-> TRUE, color_pairs |-> [i \in 1..n |-> i]] :
                 n \in 0..Len(logo_palette)}

\* A_NORMAL, and the attribute curses.color_pair(pair) with or without A_BOLD.
Attr(pair, bold) == [pair |-> pair, bold |-> bold]

\* Faulty variant: the gradient advances every second frame.
pulse_attr_every_second_frame(row, col, frm, uc, pairs) ==
    IF uc /\ pairs # <<>>
    THEN Attr(pairs[((col + row + frm \div 2) % Len(pairs)) + 1],
              (frm + col + row) % 20 < 10)
    ELSE Attr(0, FALSE)

\* The attribute render_style_pulse gives the glyph at (row, col).
pulse_attr(row, col, frm, uc, pairs) ==
    IF uc /\ pairs # <<>>
    THEN Attr(pairs[((col + row + frm \div 3) % Len(pairs)) + 1],
              (frm + col + row) % 20 < 10)
    ELSE Attr(0, FALSE)

\* max(len(line) for line in lines)
MaxLen(lines) ==
    CHOOSE n \in {Len(lines[i]) : i \in 1..Len(lines)} :
        \A i \in 1..Len(lines) : Len(lines[i]) <= n

\* The (row, col) of the glyphs of a logo: its characters other than space.
Glyphs(lines) ==
    {p \in UNION {{<<i - 1, j - 1>> : j \in 1..Len(lines[i])} :
                     i \in 1..Len(lines)} :
        lines[p[1] + 1][p[2] + 1] # " "}

\* render_style_pulse: the addstr_safe calls it makes.
render_style_pulse(lines, win, frm, uc, pairs, start_y) ==
    LET base_x == Max(0, (win.width - MaxLen(lines)) \div 2)
    IN {[y |-> start_y + p[1], x |-> base_x + p[2],
         ch |-> lines[p[1] + 1][p[2] + 1],
         attr |-> pulse_attr(p[1], p[2], frm, uc, pairs)] : p \in Glyphs(lines)}

InitPulse ==
    /\ InitSession
    /\ config = default_config
    /\ response = NoResponse
    /\ window \in PulseWindows
    /\ addstr_call = NoCall
    /\ logo_lines \in ModelLogos
    /\ use_color = FALSE
    /\ color_pairs = <<>>
    /\ logo_calls = {}

\* run() up to the loop: init_colors, then the startup refresh.
StartPulse ==
    /\ pc = "start"
    /\ pc' = "loop"
    /\ \E c \in init_colors :
          /\ use_color' = c.use_color
          /\ color_pairs' = c.color_pairs
    /\ DoRefresh(saved, 0)
    /\ NoLaunch
    /\ UNCHANGED <<active_screen, main_focus_row, main_focus_field,
                   config_focus_index, config_cursor, should_exit, frame, key,
                   response, window, addstr_call, logo_lines, logo_calls>>

\* One iteration on the Main screen: render_main draws the logo at row 1 in
\* the Pulse style, then getch() times out.
PulseFrame ==
    /\ Looping
    /\ frame < MaxPulseFrame
    /\ active_screen = "main"
    /\ logo_calls' = render_style_pulse(logo_lines, window, frame, use_color,
                                        color_pairs, 1)
    /\ key' = "TIMEOUT"
    /\ frame' = frame + 1
    /\ NoConfigChange /\ NoRefresh /\ NoLaunch
    /\ UNCHANGED <<models_data, models_by_owner, status_message, active_screen,
                   main_focus_row, main_focus_field, config_focus_index,
                   config_cursor, should_exit, pc, response, window,
                   addstr_call, logo_lines, use_color, color_pairs>>

NextPulse == StartPulse \/ PulseFrame

SpecPulse == InitPulse /\ [][NextPulse]_vars

-----------------------------------------------------------------------------
(* Properties *)

SlotNames == {"opus", "sonnet", "haiku"}

\* The step dispatches one of `keys' to the Main (Config) screen's handler.
MainDispatch(keys) ==
    pc = "loop" /\ active_screen = "main" /\ frame' = frame + 1 /\ key' \in keys

ConfigDispatch(keys) ==
    pc = "loop" /\ active_screen = "config" /\ frame' = frame + 1 /\ key' \in keys

CredentialsSet(cfg) == strip(cfg.base_url) # <<>> /\ strip(cfg.api_key) # <<>>

SlotsResolved(cfg) ==
    \A k \in SlotNames :
        /\ cfg.models[k].owned_by \notin {None, ""}
        /\ cfg.models[k].id \notin {None, ""}

\* The records of the last successfully fetched catalog.
CatalogPairs ==
    IF models_data = <<>> THEN {}
    ELSE {models_data[1][i] : i \in 1..Len(models_data[1])}

\* C1: the external program is invoked only by the activation key on the Main
\* screen, and only when base_url and api_key are non-empty after trimming and
\* all three slots have a non-empty owner and id; in every other state the
\* activation key invokes nothing, sets the status message to the blocking
\* reason (credentials before slots) and leaves the exit flag unset.
C1_LaunchOnlyWhenReady ==
    [][ /\ launch_result'.kind # "none" =>
              /\ MainDispatch(EnterKeys)
              /\ CredentialsSet(config)
              /\ SlotsResolved(config)
        /\ (MainDispatch(EnterKeys)
              /\ ~(CredentialsSet(config) /\ SlotsResolved(config))) =>
              /\ launch_result'.kind = "none"
              /\ should_exit' = FALSE
              /\ status_message' =
                    IF ~CredentialsSet(config)
                    THEN "Base URL and API key are required."
                    ELSE "OPUS, SONNET, and HAIKU selections are required."
      ]_vars

C1_Witness ==
    /\ launch_result.kind = "ok"
    /\ key \in EnterKeys
    /\ should_exit
    /\ SlotsResolved(config)

\* C2: once a catalog has been fetched, every slot whose id is non-null has a
\* non-null owner, and its (owner, id) pair is a record of the last
\* successfully fetched catalog.
C2_BoundSlotsInCatalog ==
    models_data # <<>> =>
        \A k \in SlotNames :
            config.models[k].id # None =>
                /\ config.models[k].owned_by # None
                /\ Rec(config.models[k].owned_by, config.models[k].id)
                       \in CatalogPairs

C2_Witness ==
    /\ models_data # <<>>
    /\ key \in {"a", "d"}
    /\ main_focus_field = 1
    /\ save_calls = 1
    /\ \E k \in SlotNames : config.models[k].id # None

\* C3: after a successful refresh every slot whose pair is missing from the
\* new catalog and that held a non-null owner or id is reset to (null, null),
\* every slot whose pair is in the new catalog is unchanged, and when a slot
\* is reset the refresh saves exactly once.
C3_RefreshReconciles ==
    [][ fetch_result' = "ok" =>
            /\ \A k \in SlotNames :
                  LET e == config.models[k]
                      present == Rec(e.owned_by, e.id) \in CatalogPairs'
                  IN /\ (~present /\ (e.owned_by # None \/ e.id # None))
                            => config'.models[k] = Slot(None, None)
                     /\ present => config'.models[k] = e
            /\ (\E k \in SlotNames : config'.models[k] # config.models[k])
                  => fetch_saves' = 1
      ]_vars

\* C4: when the fetch fails during a refresh, the status message is exactly
\* the collaborator's error text; the configuration, the catalog, the owner
\* index and the exit flag are unchanged and the refresh saves nothing.
C4_FailedRefreshChangesNothing ==
    [][ fetch_result' = "error" =>
            /\ status_message' = fetch_error'
            /\ config' = config
            /\ models_data' = models_data
            /\ models_by_owner' = models_by_owner
            /\ should_exit' = should_exit
            /\ fetch_saves' = 0
      ]_vars

C4_Witness ==
    /\ fetch_result = "error"
    /\ status_message = fetch_error
    /\ key = "ESC"
    /\ config.base_url # strip(config.base_url)

\* C5: whenever the loop is about to read an input event, the in-memory
\* configuration equals the configuration last loaded or saved.
C5_ConfigPersisted == pc \in {"start", "loop"} => config = saved

C5_Witness ==
    /\ pc = "loop"
    /\ key \in BackspaceKeys
    /\ active_screen = "config"
    /\ save_calls = 1
    /\ config = saved

\* C6: for every owner of the owner index, the id sequence is strictly
\* ascending (hence duplicate-free), whatever catalog was fetched.
C6_IdsStrictlyAscending ==
    \A o \in DOMAIN models_by_owner :
        \A i, j \in 1..Len(models_by_owner[o]) :
            i < j => Rank(models_by_owner[o][i]) < Rank(models_by_owner[o][j])

\* The option lists the program can hand to the cycling step.
OptionLists ==
    {owner_options(models_by_owner)}
        \cup {models_by_owner[o] : o \in DOMAIN models_by_owner}

\* C7: for every option list and every value v in it, advancing forward from
\* v and then backward from the result yields v again.
C7_CyclicRoundTrip ==
    \A list \in OptionLists :
        \A i \in 1..Len(list) :
            advance(list, advance(list, list[i], 1), -1) = list[i]

\* C8: with the owner field focused and the slot's owner at position i of the
\* sorted owner list of length n, the forward key sets the owner to the entry
\* at position (i+1) mod n and the backward key to the one at (i-1) mod n.
C8_OwnerCycleByPosition ==
    [][ \A dir \in {-1, 1} :
          LET owners == owner_options(models_by_owner)
              k == MODEL_KEYS[main_focus_row + 1]
              cur == config.models[k].owned_by
          IN (/\ MainDispatch(IF dir = 1 THEN {"]", "d"} ELSE {"[", "a"})
              /\ main_focus_field = 0
              /\ InList(owners, cur))
                => config'.models[k].owned_by =
                      owners[((IndexOf(owners, cur) + dir) % Len(owners)) + 1]
      ]_vars

\* C9: cycling over an empty option list is a no-op: with an empty owner
\* list, or with the id field focused on a slot whose owner is null or
\* unknown to the owner index, the forward and backward keys leave the
\* configuration unchanged and save nothing.
C9_EmptyCycleNoOp ==
    [][ LET cur == config.models[MODEL_KEYS[main_focus_row + 1]].owned_by
        IN (/\ MainDispatch({"[", "a", "]", "d"})
            /\ \/ owner_options(models_by_owner) = <<>>
               \/ main_focus_field = 1 /\ cur \notin DOMAIN models_by_owner)
              => /\ config' = config
                 /\ saved' = saved
                 /\ save_calls' = 0
                 /\ status_message' = status_message
                 /\ should_exit' = should_exit
      ]_vars

C9_Witness ==
    /\ pc = "loop"
    /\ active_screen = "main"
    /\ key \in {"a", "d"}
    /\ main_focus_field = 1
    /\ owner_options(models_by_owner) # <<>>
    /\ config.models[MODEL_KEYS[main_focus_row + 1]].owned_by = None
    /\ save_calls = 0

\* What the loop can change while it runs.
LoopState ==
    <<config, saved, models_data, models_by_owner, status_message,
      active_screen, main_focus_row, main_focus_field, config_focus_index,
      config_cursor, should_exit, frame, key>>

\* C10 as stated: on either screen the quit key sets the exit flag, and once
\* the flag is set no key is dispatched and nothing changes.
C10_QuitOnEitherScreen ==
    [][ /\ (MainDispatch({"q", "Q"}) \/ ConfigDispatch({"q", "Q"}))
              => should_exit'
        /\ should_exit => UNCHANGED LoopState
      ]_vars

\* C10 amended: the quit key sets the exit flag on the Main screen only; on
\* the Config screen it is typed into a focused text field or ignored and the
\* flag stays unset; once the flag is set no key is dispatched and nothing
\* changes.
C10_QuitOnMainOnly ==
    [][ /\ MainDispatch({"q", "Q"}) => should_exit'
        /\ ConfigDispatch({"q", "Q"}) =>
              /\ ~should_exit'
              /\ active_screen' = "config"
              /\ LET field == config_fields[config_focus_index + 1]
                 IN IF field \in {"base_url", "api_key"}
                    THEN Len(config'[field]) = Len(config[field]) + 1
                    ELSE config' = config
        /\ should_exit => UNCHANGED LoopState
      ]_vars

C10_Witness ==
    /\ pc = "done"
    /\ should_exit
    /\ key = "q"
    /\ launch_result.kind = "none"

\* C11: when the external program is invoked, the exit flag is set only when
\* it succeeded; when it was not found or exited with code n, the exit flag
\* stays unset, the status message is that failure's reason (with n), the
\* screen stays Main and the configuration is unchanged, so that the
\* activation key can launch again.
C11_FailedLaunchKeepsSession ==
    [][ launch_result'.kind # "none" =>
          /\ should_exit' <=> launch_result'.kind = "ok"
          /\ launch_result'.kind # "ok" =>
                /\ status_message' =
                      IF launch_result'.kind = "notfound"
                      THEN "Could not find 'claude' on PATH."
                      ELSE "claude exited with code "
                               \o launch_result'.returncode \o "."
                /\ active_screen' = "main"
                /\ config' = config
                /\ saved' = saved
                /\ pc' = "loop"
                /\ validate_launch_requirements(config') = None
      ]_vars

C11_Witness ==
    /\ launch_result = [kind |-> "exit", returncode |-> "2"]
    /\ status_message = "claude exited with code 2."
    /\ ~should_exit
    /\ active_screen = "main"
    /\ key \in EnterKeys

\* C12: the active screen changes only in two ways: the open-config key on
\* Main switches to Config and clears the status message, with configuration
\* and catalog unchanged; Escape on Config switches to Main, saves the
\* configuration and then runs one catalog refresh.  No other key on either
\* screen changes the active screen.
C12_ScreenTransitions ==
    [][ /\ active_screen' # active_screen =>
              MainDispatch({"c", "C"}) \/ ConfigDispatch({"ESC"})
        /\ MainDispatch({"c", "C"}) =>
              /\ active_screen' = "config"
              /\ status_message' = ""
              /\ config' = config
              /\ saved' = saved
              /\ models_data' = models_data
              /\ models_by_owner' = models_by_owner
              /\ fetch_result' = "none"
        /\ ConfigDispatch({"ESC"}) =>
              /\ active_screen' = "main"
              /\ fetch_result' \in {"skipped", "error", "ok"}
              /\ save_calls' = 1 + fetch_saves'
              /\ saved' = config'
              /\ fetch_result' # "ok" => config' = config
      ]_vars

C12_Witness ==
    /\ key = "ESC"
    /\ active_screen = "main"
    /\ fetch_result = "ok"
    /\ save_calls = 2
    /\ frame >= 2

\* C13: a refresh started while base_url or api_key is empty after trimming
\* never calls the fetch collaborator: it sets the status message that asks
\* for the credentials and returns with the configuration, the catalog and
\* the owner index unchanged and without saving.
C13_RefreshNeedsCredentials ==
    [][ (fetch_result' # "none" /\ ~CredentialsSet(config)) =>
            /\ fetch_result' = "skipped"
            /\ status_message' =
                  "Base URL and API key are required. Open config with c."
            /\ config' = config
            /\ models_data' = models_data
            /\ models_by_owner' = models_by_owner
            /\ fetch_saves' = 0
      ]_vars

C13_Witness ==
    /\ fetch_result = "skipped"
    /\ key \in {"b", "B"}
    /\ config.base_url # <<>>
    /\ config.api_key = <<" ">>
    /\ status_message = "Base URL and API key are required. Open config with c."

TextFields == {"base_url", "api_key"}

\* The text field the Config screen's keys go to, if one is focused.
FocusedField == config_fields[config_focus_index + 1]

\* The value v without the character before offset c.
WithoutCharBefore(v, c) == SubSeq(v, 1, c - 1) \o SubSeq(v, c + 1, Len(v))

\* What a Backspace step does to the focused text field f when its cursor
\* is read as c.
BackspaceAt(f, c) ==
    /\ IF c > 0
       THEN /\ config'[f] = WithoutCharBefore(config[f], c)
            /\ config_cursor'[f] = c - 1
            /\ save_calls' = 1
            /\ saved' = config'
       ELSE /\ config'[f] = config[f]
            /\ config_cursor'[f] = c
            /\ save_calls' = 0
            /\ saved' = saved
    /\ \A g \in TextFields \ {f} :
          config'[g] = config[g] /\ config_cursor'[g] = config_cursor[g]

\* C14 as stated, the cursor c being the stored offset: on Config with a text
\* field focused, Backspace with c > 0 removes the character at c-1, moves
\* the cursor to c-1 and saves; with c = 0 nothing changes and nothing is
\* saved; the other text field and its cursor are never affected.
C14_BackspaceAtStoredCursor ==
    [][ \A f \in TextFields :
          (ConfigDispatch(BackspaceKeys) /\ FocusedField = f)
              => BackspaceAt(f, config_cursor[f])
      ]_vars

\* C14 amended: the same, the cursor c being the stored offset clamped to the
\* length of the value, which is how the handler and the renderer read it.
C14_BackspaceAtClampedCursor ==
    [][ \A f \in TextFields :
          (ConfigDispatch(BackspaceKeys) /\ FocusedField = f)
              => BackspaceAt(f, Min(config_cursor[f], Len(config[f])))
      ]_vars

C14_Witness ==
    /\ key \in BackspaceKeys
    /\ active_screen = "config"
    /\ FocusedField = "base_url"
    /\ save_calls = 1
    /\ config.base_url = <<" ">>
    /\ config_cursor.base_url = 0
    /\ saved = config

\* C15 as stated: in every reachable state the stored cursor offset of each
\* text field lies between 0 and the length of the field's value.
C15_StoredCursorInRange ==
    \A f \in TextFields : config_cursor[f] \in 0..Len(config[f])

\* C15 amended: the stored offset starts in range and is never negative; it
\* is in range after every key a text field handles; it exceeds the length
\* only from a successful refresh that stored the trimmed, shorter value
\* (the offset is kept), and until the next key handled by that field.
C15_CursorInRangeUntilTrim ==
    /\ C15_StoredCursorInRange
    /\ [][ \A f \in TextFields :
             /\ config_cursor'[f] >= 0
             /\ (/\ ConfigDispatch(ConfigKeys \ {"ESC", "KEY_UP", "KEY_DOWN"})
                 /\ FocusedField = f)
                   => config_cursor'[f] \in 0..Len(config'[f])
             /\ config_cursor'[f] > Len(config'[f]) =>
                   /\ config_cursor'[f] = config_cursor[f]
                   /\ \/ config'[f] = config[f]
                      \/ /\ fetch_result' = "ok"
                         /\ config'[f] = strip(config[f])
         ]_vars

C15_Witness ==
    /\ fetch_result = "ok"
    /\ key = "ESC"
    /\ \E f \in TextFields :
          /\ config_cursor[f] > Len(config[f])
          /\ config[f] # <<>>

\* C16: addstr_safe never raises and never writes outside the window: the
\* window keeps its size, and the cells that change are exactly those of row
\* y at the columns x + i inside [0, width), which get the text's character
\* i; so a row outside [0, height) or a column x >= width changes nothing,
\* and a negative x drops the leftmost |x| characters and writes from
\* column 0.
C16_PaintClipsToSurface ==
    [][ (addstr_call'.called /\ ~addstr_call.called) =>
          LET a == addstr_call'
              rows == 0..(window.height - 1)
              cols == 0..(window.width - 1)
          IN /\ ~a.raised
             /\ window'.height = window.height
             /\ window'.width = window.width
             /\ DOMAIN window'.cells = rows
             /\ \A r \in rows :
                   /\ DOMAIN window'.cells[r] = cols
                   /\ \A c \in cols :
                         window'.cells[r][c] =
                             IF r = a.y /\ (c - a.x + 1) \in 1..Len(a.text)
                             THEN a.text[c - a.x + 1]
                             ELSE window.cells[r][c]
      ]_vars

C16_Witness ==
    /\ addstr_call.called
    /\ addstr_call.x = -1
    /\ addstr_call.y = window.height - 1
    /\ addstr_call.text = <<"a", "b", "a">>
    /\ window.width = 1
    /\ window.cells[addstr_call.y][0] = "b"

\* C17: when fetch_models gets a status s other than 200 with body b, the
\* status message is exactly "HTTP s: " followed by the trimmed body when it
\* has at most 200 characters, by its first 200 characters and "..." when
\* it is longer, and by "No response body" when it is empty.
C17_HttpErrorMessage ==
    response.kind # "none" =>
        LET b == strip(response.body)
        IN /\ fetch_result = "error"
           /\ status_message =
                 "HTTP " \o response.status \o ": " \o
                     (IF b = <<>> THEN "No response body"
                      ELSE IF Len(b) <= BodyLimit THEN join(b)
                      ELSE join(SubSeq(b, 1, BodyLimit)) \o "...")
           /\ (response.status = "500" /\ join(b) = "server error")
                 => status_message = "HTTP 500: server error"

C17_Witness ==
    /\ response.kind = "HTTPError"
    /\ response.status = "500"
    /\ Len(response.body) = BodyLimit + 2
    /\ response.body[1] = " "
    /\ Len(strip(response.body)) = BodyLimit + 1
    /\ Len(status_message) = 10 + BodyLimit + 3
    /\ key = "b"

\* The option list the cycling keys use for the focused slot and field, and
\* the slot's current value for that field.
FocusedSlot == MODEL_KEYS[main_focus_row + 1]

FocusedOptions ==
    IF main_focus_field = 0 THEN owner_options(models_by_owner)
    ELSE model_options(models_by_owner, config.models[FocusedSlot].owned_by)

FocusedValue(cfg) ==
    IF main_focus_field = 0 THEN cfg.models[FocusedSlot].owned_by
    ELSE cfg.models[FocusedSlot].id

\* C18: when the focused slot's current value is null or not in the
\* non-empty option list, the forward key selects the list's first entry and
\* the backward key its last entry, so the selection lands on a boundary
\* entry that is a member of the list.
C18_CycleFromInvalidPicksBoundary ==
    [][ \A dir \in {-1, 1} :
          (/\ MainDispatch(IF dir = 1 THEN {"]", "d"} ELSE {"[", "a"})
           /\ FocusedOptions # <<>>
           /\ ~InList(FocusedOptions, FocusedValue(config)))
             => /\ FocusedValue(config') =
                      IF dir = 1 THEN FocusedOptions[1]
                      ELSE FocusedOptions[Len(FocusedOptions)]
                /\ InList(FocusedOptions, FocusedValue(config'))
      ]_vars

\* A refresh step that succeeded and left every slot as it was.
RefreshResetNothing ==
    /\ fetch_result' = "ok"
    /\ \A k \in SlotNames : config'.models[k] = config.models[k]

\* C19 as stated: when a successful refresh resets no slot, the configuration
\* is left untouched and the refresh makes no save_config call.
C19_NoResetNoSave ==
    [][ RefreshResetNothing => (config' = config /\ fetch_saves' = 0) ]_vars

\* C19 amended: when a successful refresh resets no slot, the slots and the
\* toggles are left untouched, base_url and api_key are replaced by their
\* trimmed values, and the refresh saves the configuration exactly once.
C19_NoResetStillSaves ==
    [][ RefreshResetNothing =>
            /\ config' = [config EXCEPT !.base_url = strip(config.base_url),
                                        !.api_key = strip(config.api_key)]
            /\ fetch_saves' = 1
            /\ saved' = config'
      ]_vars

C19_Witness ==
    /\ fetch_result = "ok"
    /\ fetch_saves = 1
    /\ save_calls = 2
    /\ key = "ESC"
    /\ SlotsResolved(config)
    /\ saved = config

\* C20: in every reachable state the Main focus row is 0, 1 or 2, the Main
\* focus field is the owner (0) or the id (1) field and the Config focus
\* index is in 0..4; the up and down keys move the row, or the index, by one
\* and leave it unchanged at the first element (up) and at the last (down).
C20_FocusClamped ==
    /\ [](/\ main_focus_row \in 0..2
          /\ main_focus_field \in {0, 1}
          /\ config_focus_index \in 0..4)
    /\ [][ /\ MainDispatch({"KEY_UP"}) =>
                 main_focus_row' =
                     IF main_focus_row = 0 THEN 0 ELSE main_focus_row - 1
           /\ MainDispatch({"KEY_DOWN"}) =>
                 main_focus_row' =
                     IF main_focus_row = 2 THEN 2 ELSE main_focus_row + 1
           /\ ConfigDispatch({"KEY_UP"}) =>
                 config_focus_index' =
                     IF config_focus_index = 0 THEN 0
                     ELSE config_focus_index - 1
           /\ ConfigDispatch({"KEY_DOWN"}) =>
                 config_focus_index' =
                     IF config_focus_index = 4 THEN 4
                     ELSE config_focus_index + 1
           /\ (MainDispatch({"KEY_UP", "KEY_DOWN"})
                   \/ ConfigDispatch({"KEY_UP", "KEY_DOWN"}))
                 => UNCHANGED <<main_focus_field, active_screen, config>>
         ]_vars

C20_Witness ==
    /\ active_screen = "config"
    /\ config_focus_index = 4
    /\ key = "KEY_DOWN"
    /\ frame = 6
    /\ main_focus_row = 0

\* A step that is one iteration of run()'s loop: it reads one event.
LoopIteration == pc = "loop" /\ pc' = "loop"

\* C21 as stated: the frame counter never decreases, and every iteration of
\* the loop, whatever event or timeout it reads, adds exactly one to it.
C21_EveryIterationCountsFrame ==
    [][ /\ frame' >= frame
        /\ LoopIteration => frame' = frame + 1
      ]_vars

\* C21 amended: the frame counter never decreases; an iteration that reads a
\* key or a timeout adds exactly one to it, whether or not anything else
\* changes; an iteration that reads a resize event leaves it, and the rest
\* of the session, unchanged; outside the loop it does not change.
C21_FrameCountsKeysAndTimeouts ==
    [][ /\ frame' >= frame
        /\ LoopIteration =>
              IF key' = "KEY_RESIZE"
              THEN /\ frame' = frame
                   /\ UNCHANGED <<config, saved, models_data, models_by_owner,
                                  status_message, active_screen, should_exit>>
              ELSE frame' = frame + 1
        /\ ~LoopIteration => frame' = frame
      ]_vars

C21_Witness ==
    /\ pc = "loop"
    /\ key = "KEY_RESIZE"
    /\ frame = 2
    /\ active_screen = "config"

ToggleFields == {TOGGLE_KEYS[i] : i \in 1..Len(TOGGLE_KEYS)}

\* C22: on the Config screen with a toggle focused, Enter or space flips
\* exactly that toggle between 0 and 1, leaves the other toggles, base_url,
\* api_key, the slots and both text cursors unchanged, and saves at once (so
\* a second activation restores the value); every toggle is 0 or 1 in every
\* reachable state and build_env renders it as "0" or "1".
C22_ToggleFlips ==
    /\ [](\A f \in ToggleFields :
             /\ config.toggles[f] \in {0, 1}
             /\ build_env(config)[f] = (IF config.toggles[f] = 0 THEN "0" ELSE "1"))
    /\ [][ \A f \in ToggleFields :
             (ConfigDispatch(EnterKeys \cup {" "}) /\ FocusedField = f) =>
                /\ config' = [config EXCEPT !.toggles[f] = 1 - @]
                /\ saved' = config'
                /\ save_calls' = 1
                /\ config_cursor' = config_cursor
                /\ [config' EXCEPT !.toggles[f] = 1 - @] = config
         ]_vars

C22_Witness ==
    /\ active_screen = "config"
    /\ FocusedField = "CLAUDE_CODE_ENABLE_TELEMETRY"
    /\ key \in {"LF", " "}
    /\ frame = 5
    /\ save_calls = 1
    /\ config.toggles["CLAUDE_CODE_ENABLE_TELEMETRY"] = 1
    /\ config.toggles["DISABLE_COST_WARNINGS"] = 0
    /\ config.base_url = <<>>

\* The step renders the logo (for the frame counter before the step).
LogoRendered == pc = "loop" /\ frame' = frame + 1 /\ logo_lines # <<>>

\* The call the Pulse style makes for the glyph at p = (row, col): at row
\* 1 + row and column max(0, (width - max_len) div 2) + col, unshifted.
PulseCall(p, attr) ==
    [y |-> 1 + p[1],
     x |-> Max(0, (window.width - MaxLen(logo_lines)) \div 2) + p[2],
     ch |-> logo_lines[p[1] + 1][p[2] + 1], attr |-> attr]

PulseBold(p) == (frame + p[1] + p[2]) % 20 < 10

PulsePair(p) ==
    color_pairs[((p[2] + p[1] + frame \div 3) % Len(color_pairs)) + 1]

\* C23 as stated: in the Pulse style every glyph at (row, col) is painted
\* once, at its unshifted position, with the colour of index
\* (col + row + frame div 3) mod palette_size when there is a palette, and
\* bold exactly when (frame + col + row) mod 20 < 10, whether or not
\* colour is available.
C23_PulseBoldWithoutColor ==
    [][ LogoRendered =>
          logo_calls' =
              {PulseCall(p, Attr(IF use_color /\ color_pairs # <<>>
                                 THEN PulsePair(p) ELSE 0,
                                 PulseBold(p))) : p \in Glyphs(logo_lines)}
      ]_vars

\* C23 amended: the position is unshifted whether or not colour is
\* available; with colour and a non-empty palette the colour index and the
\* bold attribute are as stated; without them the glyph is painted with no
\* colour and never bold.
C23_PulseBoldOnlyWithColor ==
    [][ LogoRendered =>
          logo_calls' =
              {PulseCall(p, IF use_color /\ color_pairs # <<>>
                            THEN Attr(PulsePair(p), PulseBold(p))
                            ELSE Attr(0, FALSE)) : p \in Glyphs(logo_lines)}
      ]_vars

C23_Witness ==
    /\ frame = 10
    /\ Len(color_pairs) = 3
    /\ window.width = MaxLogoCols + 2
    /\ [y |-> 2, x |-> 2, ch |-> "#", attr |-> Attr(3, FALSE)] \in logo_calls
    /\ [y |-> 1, x |-> 1, ch |-> "#", attr |-> Attr(1, TRUE)] \in logo_calls

CycleKeys == {"[", "a", "]", "d"}

\* The step changes nothing of the configuration outside the focused slot.
OnlyFocusedSlotChanges ==
    /\ \A k \in SlotNames \ {FocusedSlot} : config'.models[k] = config.models[k]
    /\ config'.base_url = config.base_url
    /\ config'.api_key = config.api_key
    /\ config'.toggles = config.toggles

\* C24: owner cycling on a slot with a non-empty owner list always sets that
\* slot's id to null, also when the selected owner is the previous one, and
\* leaves the other two slots, base_url, api_key and the toggles unchanged;
\* id cycling never changes the slot's owner.
C24_OwnerCycleClearsId ==
    [][ MainDispatch(CycleKeys) =>
          /\ OnlyFocusedSlotChanges
          /\ (main_focus_field = 0 /\ owner_options(models_by_owner) # <<>>)
                => config'.models[FocusedSlot].id = None
          /\ main_focus_field # 0
                => config'.models[FocusedSlot].owned_by =
                       config.models[FocusedSlot].owned_by
      ]_vars

C24_Witness ==
    /\ key \in CycleKeys
    /\ main_focus_field = 0
    /\ main_focus_row = 0
    /\ save_calls = 1
    /\ owner_options(models_by_owner) = <<"a">>
    /\ config.models["opus"] = Slot("a", None)
    /\ config.models["sonnet"] = Slot("a", "x")
    /\ frame = 1

\* The configuration after n presses of the forward (dir = 1) or backward
\* (dir = -1) key with the focus where it is.
RECURSIVE Pressed(_, _, _)
Pressed(cfg, dir, n) ==
    IF n = 0 THEN cfg
    ELSE cycle_main_option(Pressed(cfg, dir, n - 1), models_by_owner,
                           main_focus_row, main_focus_field, dir).config

\* C25: for a slot with a chosen owner and the id field focused, repeated
\* presses of the forward key select every id listed for that owner, and so
\* do repeated presses of the backward key; the same for the owners on the
\* owner field.  The presses being deterministic, every value ever selected
\* is selected within as many presses as the list has entries, plus one.
C25_CyclingVisitsEveryOption ==
    (/\ pc = "loop"
     /\ FocusedOptions # <<>>
     /\ main_focus_field = 1 => Truthy(config.models[FocusedSlot].owned_by))
        => \A dir \in {-1, 1} :
              \A i \in 1..Len(FocusedOptions) :
                 \E n \in 1..(Len(FocusedOptions) + 1) :
                    FocusedValue(Pressed(config, dir, n)) = FocusedOptions[i]

\* C26: right after every successful refresh the stored base_url and
\* api_key equal their own trimmed values and are exactly the values passed
\* to fetch_models; a failed refresh leaves them as typed, untrimmed.
C26_TrimmedCredentialsStored ==
    [][ /\ fetch_result' = "ok" =>
              /\ config'.base_url = strip(config'.base_url)
              /\ config'.api_key = strip(config'.api_key)
              /\ fetch_args' = <<config'.base_url, config'.api_key>>
              /\ fetch_args' = <<strip(config.base_url), strip(config.api_key)>>
              /\ saved'.base_url = config'.base_url
              /\ saved'.api_key = config'.api_key
        /\ fetch_result' = "error" =>
              /\ config'.base_url = config.base_url
              /\ config'.api_key = config.api_key
              /\ fetch_args' = <<strip(config.base_url), strip(config.api_key)>>
      ]_vars

C26_Witness ==
    /\ fetch_result = "ok"
    /\ key = "ESC"
    /\ fetch_args = <<<<"q">>, <<"q">>>>
    /\ config.base_url = <<"q">>
    /\ config_cursor.base_url = 2

====
